---- MODULE Spec2Model ----
(***************************************************************************)
(* Weather insights and forecast advisor: the sequential agent pipelines   *)
(* (alerts, forecast, risk, emergency resources, hurricane), the session   *)
(* state they share, and the tool adapters (NWS, Google Maps, BigQuery)    *)
(* their stages call.                                                      *)
(***************************************************************************)
EXTENDS Integers, Sequences, FiniteSets, TLC

VARIABLES
    inv,        \* per invocation: status, entry point, session, pipeline, result
    active,     \* per invocation: the stage indexes started and not yet ended
    log,        \* per invocation: the stage indexes in the order they were started
    completed,  \* per invocation: the stage indexes that ended
    stage,      \* per invocation: the running stage's tool calls so far
    hist,       \* per invocation: what went wrong where (observation only)
    store,      \* session id -> (state key -> value): tool_context.state
    tc,         \* the adapter call in progress (adapter machine)
    tstate,     \* state key -> what adapter calls have put there (adapter machine)
    env,        \* process configuration: GOOGLE_MAPS_API_KEY set or not
    rt,         \* the chat orchestrator's handling of one request (router machine)
    fx          \* the function call last made and what it returned (function machine)

vars == <<inv, active, log, completed, stage, hist, store, tc, tstate, env, rt, fx>>
pvars == <<inv, active, log, completed, stage, hist, store>>
tvars == <<tc, tstate, env>>

----------------------------------------------------------------------------
(* Bounds of the model *)

\* invocations (requests) in one behaviour
NumInv == 2
\* adapter calls one stage makes at most
MaxCalls == 2
\* invocations under way at the same time
MaxInFlight == 1

Inv == 1..NumInv

----------------------------------------------------------------------------
(* Output schemas: the pydantic models the stages declare.  A schema is a  *)
(* function from field name to declared type.                              *)

NoSchema == "NoSchema"
NoKey == "NoKey"

AlertsSummary ==
    [f \in {"alerts", "total_count", "severe_count", "locations", "insights", "map_data"} |->
        CASE f = "alerts" -> "list"
          [] f = "total_count" -> "int"
          [] f = "severe_count" -> "int"
          [] f = "locations" -> "list"
          [] f = "insights" -> "str"
          [] f = "map_data" -> "optdict"]

AlertsFormatterOutput ==
    [f \in {"alerts", "total_count", "severe_count", "locations", "insights"} |->
        CASE f = "alerts" -> "list"
          [] f = "total_count" -> "int"
          [] f = "severe_count" -> "int"
          [] f = "locations" -> "list"
          [] f = "insights" -> "str"]

ForecastSummary ==
    [f \in {"location", "coordinates", "current_conditions", "daily_forecasts", "insights"} |->
        CASE f = "location" -> "str"
          [] f = "coordinates" -> "dict"
          [] f = "current_conditions" -> "str"
          [] f = "daily_forecasts" -> "list"
          [] f = "insights" -> "str"]

EmergencyResourcesSummary ==
    [f \in {"hospitals", "shelters", "pharmacies", "evacuation_routes", "insights"} |->
        CASE f = "insights" -> "str"
          [] OTHER -> "list"]

RiskAnalysisSummary ==
    [f \in {"alert_summary", "population_at_risk", "risk_score", "risk_level",
            "vulnerable_areas", "recommendations", "evacuation_needed", "insights"} |->
        CASE f = "alert_summary" -> "str"
          [] f = "population_at_risk" -> "int"
          [] f = "risk_score" -> "float"
          [] f = "risk_level" -> "str"
          [] f = "vulnerable_areas" -> "list"
          [] f = "recommendations" -> "list"
          [] f = "evacuation_needed" -> "bool"
          [] f = "insights" -> "str"]

RiskAnalysisSummaryV1 ==
    [f \in {"alert_summary", "population_at_risk", "risk_score", "risk_level",
            "vulnerable_areas", "recommendations", "evacuation_needed"} |->
        CASE f = "alert_summary" -> "str"
          [] f = "population_at_risk" -> "int"
          [] f = "risk_score" -> "int"
          [] f = "risk_level" -> "str"
          [] f = "vulnerable_areas" -> "list"
          [] f = "recommendations" -> "list"
          [] f = "evacuation_needed" -> "bool"]

HurricaneData ==
    [f \in {"category", "states", "min_lat", "max_lat", "min_lng", "max_lng"} |->
        CASE f = "category" -> "int"
          [] f = "states" -> "list"
          [] OTHER -> "float"]

EvacuationPlan ==
    [f \in {"prioritized_locations", "affected_states", "hurricane_category",
            "total_high_risk_locations", "highest_risk_score", "insights"} |->
        CASE f = "prioritized_locations" -> "list"
          [] f = "affected_states" -> "list"
          [] f = "hurricane_category" -> "int"
          [] f = "total_high_risk_locations" -> "int"
          [] f = "highest_risk_score" -> "float"
          [] f = "insights" -> "dict"]

SchemaOf(name) ==
    CASE name = "AlertsSummary" -> AlertsSummary
      [] name = "AlertsFormatterOutput" -> AlertsFormatterOutput
      [] name = "ForecastSummary" -> ForecastSummary
      [] name = "EmergencyResourcesSummary" -> EmergencyResourcesSummary
      [] name = "RiskAnalysisSummary" -> RiskAnalysisSummary
      [] name = "RiskAnalysisSummaryV1" -> RiskAnalysisSummaryV1
      [] name = "HurricaneData" -> HurricaneData
      [] name = "EvacuationPlan" -> EvacuationPlan

----------------------------------------------------------------------------
(* Stage and pipeline declarations: LlmAgent(...) and SequentialAgent(...) *)

Stage(n, t, k, s) == [name |-> n, tools |-> t, output_key |-> k, output_schema |-> s]

alerts_snapshot_workflow ==
    << Stage("alerts_retriever", {"get_nws_alerts"}, "alerts_data", NoSchema),
       Stage("alerts_formatter", {}, "alerts_summary", "AlertsSummary"),
       Stage("map_generator", {"geocode_address", "generate_map"}, "map_data", NoSchema),
       Stage("final_synthesizer", {}, "final_summary", "AlertsSummary") >>

chat_alerts_snapshot_workflow ==
    << Stage("alerts_retriever", {"get_nws_alerts"}, "alerts_data", NoSchema),
       Stage("alerts_formatter", {}, "formatted_alerts", "AlertsFormatterOutput"),
       Stage("map_generator", {"get_zone_coordinates", "generate_map"}, "map_data", NoSchema),
       Stage("final_synthesizer", {}, "final_summary", "AlertsSummary") >>

forecast_workflow ==
    << Stage("geocoding_agent", {"geocode_address"}, "geocode_result", NoSchema),
       Stage("forecast_retriever", {"get_nws_forecast", "get_current_conditions"},
             "forecast_data", NoSchema),
       Stage("forecast_formatter", {}, "forecast_summary", "ForecastSummary") >>

emergency_resources_workflow ==
    << Stage("location_parser", {"geocode_address"}, "location_data", NoSchema),
       Stage("resource_finder", {"search_nearby_places"}, "facilities", NoSchema),
       Stage("route_calculator", {"get_directions"}, "routes", NoSchema),
       Stage("final_synthesizer", {}, "final_summary", "EmergencyResourcesSummary") >>

risk_analysis_workflow ==
    << Stage("alert_retriever", {"get_nws_alerts"}, "alert_data", NoSchema),
       Stage("census_data_retriever",
             {"get_census_demographics", "get_census_tracts_in_area", "get_flood_risk_data"},
             "census_data", NoSchema),
       Stage("risk_calculator", {}, "risk_scores", NoSchema),
       Stage("recommendations_generator", {}, "risk_analysis_summary", "RiskAnalysisSummary") >>

risk_analysis_workflow_v1 ==
    << Stage("alert_parser", {}, "parsed_alert_data", NoSchema),
       Stage("census_data_retriever",
             {"get_census_demographics", "get_census_tracts_in_area", "get_flood_risk_data",
              "geocode_address"},
             "census_data", NoSchema),
       Stage("risk_calculator", {}, "risk_scores", NoSchema),
       Stage("recommendations_generator", {}, "risk_analysis_summary", "RiskAnalysisSummaryV1") >>

HurricaneSimulationAgent ==
    << Stage("hurricane_image_analysis_agent", {}, "hurricane_data", "HurricaneData"),
       Stage("evacuation_coordinator_agent",
             {"get_flood_risk_data", "calculate_evacuation_priority"},
             NoKey, "EvacuationPlan") >>

\* the coordinator the API wrapper and the tester run: one agent that hands the
\* request to its sub-agents, whose tools are the location and NWS adapters; it
\* declares no output_key and no output_schema
weather_advisor_coordinator ==
    << Stage("weather_advisor_coordinator",
             {"geocode_address", "get_directions", "search_nearby_places", "generate_map",
              "get_nws_forecast", "get_hourly_forecast", "get_nws_alerts",
              "get_current_conditions", "get_hurricane_track"},
             NoKey, NoSchema) >>

Pipelines ==
    {"alerts", "chat_alerts", "forecast", "emergency", "risk", "risk_v1", "hurricane"}

\* what a request can be run by: a pipeline, or the coordinator
Targets == Pipelines \cup {"coordinator"}

sub_agents(p) ==
    CASE p = "coordinator" -> weather_advisor_coordinator
      [] p = "alerts" -> alerts_snapshot_workflow
      [] p = "chat_alerts" -> chat_alerts_snapshot_workflow
      [] p = "forecast" -> forecast_workflow
      [] p = "emergency" -> emergency_resources_workflow
      [] p = "risk" -> risk_analysis_workflow
      [] p = "risk_v1" -> risk_analysis_workflow_v1
      [] p = "hurricane" -> HurricaneSimulationAgent

\* the state keys the instruction of stage n of pipeline p tells it to read
Reads(p, n) ==
    CASE p = "alerts" /\ n = "alerts_formatter" -> {"alerts_data"}
      [] p = "alerts" /\ n = "map_generator" -> {"alerts_summary"}
      [] p = "chat_alerts" /\ n = "alerts_formatter" -> {"alerts_data"}
      [] p = "chat_alerts" /\ n = "map_generator" -> {"formatted_alerts"}
      [] p = "chat_alerts" /\ n = "final_synthesizer" -> {"formatted_alerts", "map_data"}
      [] p = "forecast" /\ n = "forecast_retriever" -> {"geocode_result"}
      [] p = "forecast" /\ n = "forecast_formatter" ->
             {"location_data", "current_conditions", "forecast_data"}
      [] p = "emergency" /\ n = "resource_finder" -> {"location_data"}
      [] p = "emergency" /\ n = "route_calculator" -> {"location_data", "facilities"}
      [] p = "emergency" /\ n = "final_synthesizer" -> {"facilities", "routes", "input"}
      [] p = "risk" /\ n = "census_data_retriever" -> {"alert_data"}
      [] p = "risk" /\ n = "risk_calculator" -> {"alert_data", "census_data"}
      [] p = "risk" /\ n = "recommendations_generator" ->
             {"alert_summary", "population_data", "risk_assessment"}
      [] p = "risk_v1" /\ n = "census_data_retriever" -> {"parsed_alert_data"}
      [] p = "risk_v1" /\ n = "risk_calculator" -> {"alert_data", "census_data"}
      [] p = "risk_v1" /\ n = "recommendations_generator" ->
             {"alert_data", "census_data", "risk_scores"}
      [] p = "hurricane" /\ n = "evacuation_coordinator_agent" -> {"hurricane_data"}
      [] OTHER -> {}

\* the fields of state[k] the instruction of stage n of pipeline p indexes
ReadsFields(p, n, k) ==
    CASE p = "forecast" /\ n = "forecast_retriever" /\ k = "geocode_result" -> {"lat", "lng"}
      [] p = "emergency" /\ n = "route_calculator" /\ k = "location_data" ->
             {"formatted_address"}
      [] p = "emergency" /\ n = "final_synthesizer" /\ k = "input" -> {"resourceType"}
      [] OTHER -> {}

----------------------------------------------------------------------------
(* Tool adapters: the state key each writes on success, and the status it  *)
(* returns.                                                                *)

\* src/tools/tools.py and src/weather_insights_agent/weather_tools/tools.py
Adapters ==
    {"get_nws_forecast", "get_hourly_forecast", "get_nws_alerts", "get_current_conditions",
     "get_hurricane_track", "geocode_address", "get_directions", "search_nearby_places",
     "generate_map", "get_census_demographics", "find_nearest_weather_station",
     "query_historical_weather", "get_weather_statistics"}

\* adapters the agents import whose definitions are in neither tools file
MissingAdapters ==
    {"get_zone_coordinates", "get_census_tracts_in_area", "get_flood_risk_data",
     "calculate_evacuation_priority"}

\* tool_context.state[<key>] = ... on the success path of each adapter
AdapterKey(t) ==
    CASE t = "get_nws_forecast" -> "forecast_data"
      [] t = "get_hourly_forecast" -> "forecast_data"
      [] t = "get_nws_alerts" -> "alerts"
      [] t = "get_current_conditions" -> "current_conditions"
      [] t = "get_hurricane_track" -> NoKey
      [] t = "geocode_address" -> "geocode_result"
      [] t = "get_directions" -> "directions"
      [] t = "search_nearby_places" -> "nearby_places"
      [] t = "generate_map" -> "map_data"
      [] t = "get_census_demographics" -> "census_demographics"
      [] t = "find_nearest_weather_station" -> "weather_stations"
      [] t = "query_historical_weather" -> "historical_weather"
      [] t = "get_weather_statistics" -> "weather_statistics"

\* the fixed adapter-specific key of an adapter defined outside the two tools files
MissingAdapterKey(t) ==
    CASE t = "get_zone_coordinates" -> "zone_coordinates"
      [] t = "get_census_tracts_in_area" -> "census_tracts"
      [] t = "get_flood_risk_data" -> "flood_risk_data"
      [] t = "calculate_evacuation_priority" -> "evacuation_priority"

KeyOf(t) == IF t \in MissingAdapters THEN MissingAdapterKey(t) ELSE AdapterKey(t)

\* the "status" of the dict an adapter returns after its provider answered well
SuccessStatus(t) == IF t = "get_hurricane_track" THEN "partial" ELSE "success"

\* the statuses a call of t can return to the stage
ReturnStatuses(t) ==
    IF t \in MissingAdapters THEN {"success", "error"} ELSE {SuccessStatus(t), "error"}

PipelineStages == UNION {{sub_agents(p)[k] : k \in 1..Len(sub_agents(p))} : p \in Targets}

Keys ==
    {"input"}
    \cup ({s.output_key : s \in PipelineStages} \ {NoKey})
    \cup ({AdapterKey(t) : t \in Adapters} \ {NoKey})
    \cup {MissingAdapterKey(t) : t \in MissingAdapters}

----------------------------------------------------------------------------
(* Values of the state store *)

NoFields == [f \in {} |-> "str"]

Val(i, by, kind, fields) == [inv |-> i, by |-> by, kind |-> kind, fields |-> fields]

Null == Val(0, "none", "none", NoFields)

EmptyState == [k \in Keys |-> Null]

\* a dict whose fields S all hold values of type ty
Fields(S, ty) == [f \in S |-> ty]

\* the dict an adapter assigns to its state key on its success path: field name
\* to the type of the value (find_nearest_weather_station assigns a list, and the
\* adapters defined outside the tools files are not known: no fields)
Payload(t) ==
    CASE t \in {"get_nws_forecast", "get_hourly_forecast"} ->
             Fields({"location", "updated", "timestamp"}, "str") @@ Fields({"periods"}, "list")
      [] t = "get_nws_alerts" ->
             Fields({"alerts"}, "list") @@ Fields({"count"}, "int")
             @@ Fields({"timestamp"}, "str")
      [] t = "get_current_conditions" ->
             Fields({"timestamp", "temperature_unit", "text_description", "raw_message"}, "str")
             @@ Fields({"temperature", "dewpoint", "humidity", "wind_speed", "wind_direction",
                        "barometric_pressure", "visibility"}, "float")
      [] t = "geocode_address" ->
             Fields({"address", "formatted_address", "place_id"}, "str")
             @@ Fields({"latitude", "longitude"}, "float") @@ Fields({"types"}, "list")
      [] t = "get_directions" ->
             Fields({"origin", "destination", "mode"}, "str") @@ Fields({"routes"}, "list")
      [] t = "search_nearby_places" ->
             Fields({"location", "place_type", "keyword"}, "str")
             @@ Fields({"radius_meters", "count"}, "int") @@ Fields({"places"}, "list")
      [] t = "generate_map" ->
             Fields({"center"}, "dict") @@ Fields({"zoom"}, "int")
             @@ Fields({"markers"}, "list") @@ Fields({"map_url"}, "str")
      [] t = "get_census_demographics" ->
             Fields({"city", "state"}, "str")
             @@ Fields({"total_population", "total_households", "census_tracts"}, "int")
             @@ Fields({"avg_median_age", "avg_median_income"}, "float")
             @@ Fields({"tracts"}, "list")
      [] t = "query_historical_weather" ->
             Fields({"usaf_id"}, "str") @@ Fields({"records"}, "list")
             @@ Fields({"count"}, "int")
      [] t = "get_weather_statistics" ->
             Fields({"station_id", "period"}, "str")
             @@ Fields({"avg_temperature", "highest_temperature", "lowest_temperature",
                        "avg_precipitation", "total_precipitation", "avg_wind_speed",
                        "max_wind_speed"}, "float")
             @@ Fields({"days_recorded"}, "int")
      [] OTHER -> NoFields

----------------------------------------------------------------------------
(* Schema validation (pydantic model validation of a stage's output)       *)

\* a declared type accepts a value of an actual type
TypeAccepts(decl, actual) ==
    CASE decl = "float" -> actual \in {"float", "int"}
      [] decl = "optdict" -> actual \in {"dict", "null"}
      [] OTHER -> actual = decl

\* what the claims mean by "conforms": every declared field present, rightly typed
Conforms(c, sname) ==
    \A f \in DOMAIN SchemaOf(sname) :
        f \in DOMAIN c /\ TypeAccepts(SchemaOf(sname)[f], c[f])

\* no check at all: every output is taken as valid
ValidateNothing(c, sname) == TRUE

\* only the presence of the fields is checked, their types are not
ValidatePresenceOnly(c, sname) == \A f \in DOMAIN SchemaOf(sname) : f \in DOMAIN c

\* the validation step the executor applies to a stage's candidate output
Validate(c, sname) == Conforms(c, sname)

\* a type the declared type does not accept
WrongType(decl) ==
    CASE decl = "int" -> "float"
      [] decl = "list" -> "badlist"
      [] decl = "str" -> "null"
      [] OTHER -> "str"

\* the candidate outputs a stage's task may produce for a schema: the conforming
\* object, the object with one field left out, the object with one field mistyped,
\* the object with its optional fields null and whole numbers in its float fields
Candidates(sname) ==
    LET sch == SchemaOf(sname)
        good == [f \in DOMAIN sch |-> IF sch[f] = "optdict" THEN "dict" ELSE sch[f]]
    IN  {good}
        \cup {[f \in DOMAIN sch \ {g} |-> good[f]] : g \in DOMAIN sch}
        \cup {[good EXCEPT ![g] = WrongType(sch[g])] : g \in DOMAIN sch}
        \cup {[f \in DOMAIN sch |-> CASE sch[f] = "optdict" -> "null"
                                       [] sch[f] = "float" -> "int"
                                       [] OTHER -> sch[f]]}

\* the outputs of a stage with or without a schema
StageOutputs(s) ==
    IF s.output_schema = NoSchema THEN {NoFields} ELSE Candidates(s.output_schema)

----------------------------------------------------------------------------
(* Entry points and sessions                                               *)

\* WeatherAgentTester.__init__: self.session_id = "test_session_001", one session
\* for every invoke_agent call.  Session ids are numbers here: 0 is that session.
test_session_001 == 0

\* query_agent (the API wrapper) and invoke_agent (the tester) run the coordinator;
\* the ADK web server serves each pipeline module's root_agent
EntryPoints == {"query_agent", "invoke_agent", "adk_web"}

TargetsOf(e) == IF e = "adk_web" THEN Pipelines ELSE {"coordinator"}

Sessions == {test_session_001} \cup Inv

\* query_agent makes a Runner per request and names no session, and a pipeline
\* invocation allocates a fresh state: the run gets its own; invoke_agent passes
\* session_id = self.session_id
SessionOf(i, e) == IF e = "invoke_agent" THEN test_session_001 ELSE i

Idle == [status |-> "idle", entry |-> "none", sess |-> test_session_001,
         pipeline |-> "none", kind |-> "none", data |-> NoFields]

NoCalls == [calls |-> 0, toolErr |-> FALSE, tried |-> {}]

NoHist == [toolFailed |-> {}, badOut |-> {}]

\* no function call made yet
NoEval == [fn |-> "none"]

\* the orchestrator has no request in hand
IdleRouter == [phase |-> "idle", cats |-> {}, ran |-> << >>, reply |-> "none"]

\* what adapter calls have put under a state key: nothing yet
NoPayload == [written |-> FALSE, items |-> << >>]

EmptyToolState == [k \in Keys |-> NoPayload]

\* no earlier call is remembered
NoPrev == [made |-> FALSE, resp |-> << >>, state |-> EmptyToolState]

\* no adapter call in progress; n counts the calls made so far
IdleCall == [phase |-> "idle", tool |-> "none", arg |-> "none", ids |-> 0, reqs |-> 0,
             left |-> 0, resp |-> << >>, status |-> "none", msg |-> "none",
             deadline |-> FALSE, n |-> 0, prev |-> NoPrev]

Init ==
    /\ inv = [i \in Inv |-> Idle]
    /\ active = [i \in Inv |-> {}]
    /\ log = [i \in Inv |-> << >>]
    /\ completed = [i \in Inv |-> {}]
    /\ stage = [i \in Inv |-> NoCalls]
    /\ hist = [i \in Inv |-> NoHist]
    /\ store = [s \in Sessions |-> EmptyState]
    /\ tc = IdleCall
    /\ tstate = EmptyToolState
    /\ env = [GOOGLE_MAPS_API_KEY |-> TRUE]
    /\ rt = IdleRouter
    /\ fx = NoEval

----------------------------------------------------------------------------
(* The sequential executor                                                 *)

Running(i) == inv[i].status = "running"

Stages(i) == sub_agents(inv[i].pipeline)

\* the stage the executor is in: the one started last
Cur(i) == log[i][Len(log[i])]

CurStage(i) == Stages(i)[Cur(i)]

\* the executor walks sub_agents in list order
NextStageIndex(i) == Len(log[i]) + 1

\* a next stage is started although the one before it has not ended
CanStartEarly(i) == NextStageIndex(i) <= Len(Stages(i))

\* the next stage starts only when no stage of the run is active
CanStart(i) == active[i] = {} /\ NextStageIndex(i) <= Len(Stages(i))

\* the request payload is put in the state under the conventional "input" key
SeedInput(st, i) == [st EXCEPT !["input"] = Val(i, "request", "input", NoFields)]

\* a request arrives at an entry point and is routed to one pipeline
StartInvocation(i, e, p) ==
    /\ inv[i].status = "idle"
    /\ p \in TargetsOf(e)
    /\ \A j \in Inv : j < i => inv[j].status # "idle"
    /\ Cardinality({j \in Inv : inv[j].status \in {"running", "success", "error"}})
          < MaxInFlight
    \* test_all_use_cases awaits each invoke_agent before the next
    /\ e = "invoke_agent" =>
          \A j \in Inv : ~(inv[j].entry = "invoke_agent" /\ Running(j))
    /\ inv' = [inv EXCEPT ![i] = [status |-> "running", entry |-> e,
                                  sess |-> SessionOf(i, e), pipeline |-> p,
                                  kind |-> "none", data |-> NoFields]]
    /\ store' = [store EXCEPT ![SessionOf(i, e)] = SeedInput(@, i)]
    /\ UNCHANGED <<active, log, completed, stage, hist, tvars, rt, fx>>

StartStage(i) ==
    /\ Running(i)
    /\ CanStart(i)
    /\ log' = [log EXCEPT ![i] = Append(@, NextStageIndex(i))]
    /\ active' = [active EXCEPT ![i] = @ \cup {NextStageIndex(i)}]
    /\ UNCHANGED <<inv, completed, stage, hist, store, tvars, rt, fx>>

\* the executor is inside a stage
InStage(i) == log[i] # << >> /\ Cur(i) \in active[i]

\* an adapter error is pending and the stage has not recovered from it
Unrecovered(i) == stage[i].toolErr

\* the stage's task calls one of its permitted adapters, which returns status st
CallTool(i, t, st) ==
    /\ Running(i)
    /\ InStage(i)
    /\ t \in CurStage(i).tools
    /\ st \in ReturnStatuses(t)
    /\ stage[i].calls < MaxCalls
    \* after an error only an alternate tool is tried
    /\ Unrecovered(i) => t \notin stage[i].tried
    /\ IF st = "error"
         THEN /\ stage' = [stage EXCEPT ![i] = [calls |-> @.calls + 1, toolErr |-> TRUE,
                                                tried |-> @.tried \cup {t}]]
              /\ UNCHANGED store
         ELSE /\ stage' = [stage EXCEPT ![i] = [calls |-> @.calls + 1, toolErr |-> FALSE,
                                                tried |-> {}]]
              /\ store' = IF KeyOf(t) = NoKey THEN store
                          ELSE [store EXCEPT ![inv[i].sess][KeyOf(t)] =
                                       Val(i, t, "adapter", Payload(t))]
    /\ UNCHANGED <<inv, active, log, completed, hist, tvars, rt, fx>>

\* the stage just run is never taken for the last one
IsLastNever(i) == FALSE

\* the current stage is the last declared one
IsLast(i) == Cur(i) = Len(Stages(i))

\* a stage whose adapter failed ends as well as one whose adapters succeeded
MayFinishAnyway(i) == TRUE

\* a stage ends well only if no adapter error is left unrecovered
MayFinish(i) == ~Unrecovered(i)

\* what the history records when the current stage ends or the run is cut short
Ended(i, c) ==
    [toolFailed |-> hist[i].toolFailed \cup (IF Unrecovered(i) THEN {Cur(i)} ELSE {}),
     badOut |-> hist[i].badOut \cup
                  (IF CurStage(i).output_schema # NoSchema
                      /\ ~Conforms(c, CurStage(i).output_schema)
                   THEN {Cur(i)} ELSE {})]

\* the stage's output passes validation (when a schema is declared), is written
\* under output_key, and the executor moves on; after the last stage the run ends
CompleteStage(i, c) ==
    /\ Running(i)
    /\ InStage(i)
    /\ MayFinish(i)
    /\ c \in StageOutputs(CurStage(i))
    /\ CurStage(i).output_schema # NoSchema => Validate(c, CurStage(i).output_schema)
    /\ store' = IF CurStage(i).output_key = NoKey THEN store
                ELSE [store EXCEPT ![inv[i].sess][CurStage(i).output_key] =
                             Val(i, CurStage(i).name, "stage", c)]
    /\ active' = [active EXCEPT ![i] = @ \ {Cur(i)}]
    /\ completed' = [completed EXCEPT ![i] = @ \cup {Cur(i)}]
    /\ hist' = [hist EXCEPT ![i] = Ended(i, c)]
    /\ inv' = IF IsLast(i)
                THEN [inv EXCEPT ![i].status = "success", ![i].data = c]
                ELSE inv
    /\ stage' = [stage EXCEPT ![i] = NoCalls]
    /\ UNCHANGED <<log, tvars, rt, fx>>

\* the stage's output fails validation: the run ends in error, nothing is stored
RejectOutput(i, c) ==
    /\ Running(i)
    /\ InStage(i)
    /\ MayFinish(i)
    /\ CurStage(i).output_schema # NoSchema
    /\ c \in StageOutputs(CurStage(i))
    /\ ~Validate(c, CurStage(i).output_schema)
    /\ active' = [active EXCEPT ![i] = @ \ {Cur(i)}]
    /\ completed' = [completed EXCEPT ![i] = @ \cup {Cur(i)}]
    /\ hist' = [hist EXCEPT ![i] = Ended(i, c)]
    /\ inv' = [inv EXCEPT ![i].status = "error", ![i].kind = "SchemaViolationError"]
    /\ stage' = [stage EXCEPT ![i] = NoCalls]
    /\ UNCHANGED <<log, store, tvars, rt, fx>>

\* an adapter error with no alternate that succeeded fails the stage and the run
FailStage(i) ==
    /\ Running(i)
    /\ InStage(i)
    /\ Unrecovered(i)
    /\ active' = [active EXCEPT ![i] = @ \ {Cur(i)}]
    /\ completed' = [completed EXCEPT ![i] = @ \cup {Cur(i)}]
    /\ hist' = [hist EXCEPT ![i] = Ended(i, NoFields)]
    /\ inv' = [inv EXCEPT ![i].status = "error", ![i].kind = "ToolError"]
    /\ stage' = [stage EXCEPT ![i] = NoCalls]
    /\ UNCHANGED <<log, store, tvars, rt, fx>>

Terminated(i) == inv[i].status \in {"success", "error"}

\* the entry point hands the result to its caller and the run's bookkeeping is
\* dropped; a state made for the one invocation goes with it, the tester's
\* session stays in its InMemorySessionService
Return(i) ==
    /\ Terminated(i)
    /\ inv' = [inv EXCEPT ![i] = [Idle EXCEPT !.status = "returned"]]
    /\ active' = [active EXCEPT ![i] = {}]
    /\ log' = [log EXCEPT ![i] = << >>]
    /\ completed' = [completed EXCEPT ![i] = {}]
    /\ hist' = [hist EXCEPT ![i] = NoHist]
    /\ store' = IF inv[i].sess = test_session_001
                  THEN store
                  ELSE [store EXCEPT ![inv[i].sess] = EmptyState]
    /\ UNCHANGED <<stage, tvars, rt, fx>>

\* what the caller of entry point e gets for a run that ended with status st.
\* query_agent awaits runner.run_async with no try around it and wraps the text of
\* the events in a QueryResponse (response, session_id): a failure leaves it as
\* the exception it is.  invoke_agent returns the runner's response, and None from
\* its except branch.  The ADK server answers with the run's tagged result.
Delivered(e, st) ==
    CASE e = "query_agent" -> IF st = "success" THEN "QueryResponse" ELSE "exception"
      [] e = "invoke_agent" -> IF st = "success" THEN "response" ELSE "None"
      [] OTHER -> st

Step(i) ==
    \/ StartStage(i)
    \/ /\ Running(i) /\ InStage(i)
       /\ \E t \in CurStage(i).tools : \E st \in ReturnStatuses(t) : CallTool(i, t, st)
    \/ /\ Running(i) /\ InStage(i)
       /\ \E c \in StageOutputs(CurStage(i)) : CompleteStage(i, c)
    \/ /\ Running(i) /\ InStage(i)
       /\ \E c \in StageOutputs(CurStage(i)) : RejectOutput(i, c)
    \/ FailStage(i)
    \/ Return(i)

Next ==
    \/ \E i \in Inv, e \in EntryPoints, p \in Targets : StartInvocation(i, e, p)
    \/ \E i \in Inv : Step(i)

Spec == Init /\ [][Next]_vars

\* one request and its run taken alone: the executor keeps taking the steps of a
\* run that has one to take; nothing makes the request arrive
RunNext ==
    \/ \E e \in EntryPoints, p \in Targets : StartInvocation(1, e, p)
    \/ Step(1)

FairRunSpec == Init /\ [][RunNext]_vars /\ WF_vars(Step(1))

----------------------------------------------------------------------------
(* The tool adapters, one call at a time: from the call, through the       *)
(* requests the adapter sends to its provider, to the dict it returns or   *)
(* the exception that leaves it.                                           *)

\* adapter calls in one behaviour of the adapter machine
MaxToolCalls == 2
\* entries of usaf_ids in a query_historical_weather call
MaxStations == 2

NWSAdapters ==
    {"get_nws_forecast", "get_hourly_forecast", "get_nws_alerts", "get_current_conditions",
     "get_hurricane_track"}

GoogleAdapters == {"geocode_address", "get_directions", "search_nearby_places"}

BigQueryAdapters ==
    {"get_census_demographics", "find_nearest_weather_station", "query_historical_weather",
     "get_weather_statistics"}

\* requests.get(..., timeout=10) bounds every NWS and Google Maps request;
\* bq_client.query(query) and query_job.result() are called with no timeout
HasTimeout(t) == t \in NWSAdapters \cup GoogleAdapters

\* the classes of argument values: well-formed, ill-formed (an unknown state
\* abbreviation, markers that are no dicts, a date that is no date), None
Args == {"valid", "invalid", "none"}

\* what the provider can answer: the expected document, a well-formed document
\* with nothing in it (no rows, no features, ZERO_RESULTS), a JSON document of
\* another shape, a body that is no JSON, an HTTP error status, a network failure,
\* a provider status other than OK
Outcomes == {"ok", "empty", "wrong_shape", "not_json", "http_error", "network", "non_ok"}

\* every parameter of get_nws_alerts has a default; the other adapters have
\* parameters a call must give
HasRequiredArgs(t) == t # "get_nws_alerts"

\* the call's explicit arguments are ill-formed, or are missing though required
BadArgument(t, a) == a = "invalid" \/ (a = "none" /\ HasRequiredArgs(t))

\* the answers that raise inside the adapter's try block
Raising == {"not_json", "http_error", "network"}

\* the answers a provider can give to adapter t
OutcomesOf(t) == IF t \in GoogleAdapters THEN Outcomes ELSE Outcomes \ {"non_ok"}

\* the requests a call of t sends when every one of them is answered well
RequestsOf(t) ==
    CASE t \in {"get_nws_forecast", "get_hourly_forecast"} -> 2
      [] t = "generate_map" -> 0
      [] OTHER -> 1

\* tool_context.state[key] = payload: the key's old value is replaced
StoreAppending(old, items) == [written |-> TRUE, items |-> old.items \o items]

Store(old, items) == [written |-> TRUE, items |-> items]

\* the list of the payload (alerts, periods, places, records, markers) the adapter
\* builds from the provider's last answer, or, with no request, from its arguments
ItemsOf(c) ==
    IF c.resp = << >>
      THEN (IF c.arg = "valid" THEN <<c.tool>> ELSE << >>)
      ELSE (IF c.resp[Len(c.resp)] = "empty" THEN << >> ELSE <<c.tool>>)

\* the provider's answer o has reached the adapter
Heard(o) == [tc EXCEPT !.resp = Append(@, o)]

\* the call ends: the adapter returns a dict with this status, having written its
\* key on the success path only
Returned(c, st) == [c EXCEPT !.phase = "returned", !.status = st, !.deadline = FALSE]

ReturnSuccess(c) ==
    /\ tc' = Returned(c, SuccessStatus(c.tool))
    /\ tstate' = IF AdapterKey(c.tool) = NoKey THEN tstate
                 ELSE [tstate EXCEPT ![AdapterKey(c.tool)] = Store(@, ItemsOf(c))]

\* an error return that has written the adapter's key first
ReturnErrorHavingWritten(c) ==
    /\ tc' = Returned(c, "error")
    /\ tstate' = IF AdapterKey(c.tool) = NoKey THEN tstate
                 ELSE [tstate EXCEPT ![AdapterKey(c.tool)] = Store(@, ItemsOf(c))]

ReturnError(c) ==
    /\ tc' = Returned(c, "error")
    /\ tstate' = tstate

\* the Google Maps adapters' first statement: if not GOOGLE_MAPS_API_KEY
KeyNeverChecked(t) == FALSE

KeyMissing(t) == t \in GoogleAdapters /\ ~env.GOOGLE_MAPS_API_KEY

ReturnNotConfigured(c) ==
    /\ tc' = [Returned(c, "error") EXCEPT !.msg = "not configured"]
    /\ tstate' = tstate

\* the adapter sends a request and waits for its provider
Send(call) ==
    /\ tc' = [call EXCEPT !.phase = "waiting", !.reqs = @ + 1,
                          !.deadline = HasTimeout(call.tool)]
    /\ tstate' = tstate

\* the adapter's code up to its first request, for the call just made
Begin(call) ==
    LET t == call.tool
        a == call.arg
    IN  CASE t = "query_historical_weather" /\ a = "none" ->
                 \* start_date.split('-') runs before any try block: the exception
                 \* leaves the adapter, and track_tool_call logs it and re-raises
                 /\ tc' = [call EXCEPT !.phase = "raised"]
                 /\ tstate' = tstate
          [] t = "query_historical_weather" /\ a # "none" /\ call.ids = 0 ->
                 ReturnError(call)
          [] t = "get_census_demographics" /\ a # "valid" ->
                 \* state_fips.get(state.upper()) finds nothing, or raises in the try
                 ReturnError(call)
          [] KeyMissing(t) ->
                 ReturnNotConfigured(call)
          [] t = "generate_map" /\ a = "invalid" ->
                 ReturnError(call)
          [] t = "generate_map" /\ a # "invalid" ->
                 ReturnSuccess(call)
          [] OTHER -> Send(call)

\* the stage calls adapter t with arguments of class a (and, for
\* query_historical_weather, a usaf_ids list of n entries)
ToolInvoke(t, a, n) ==
    /\ tc.phase = "idle"
    /\ tc.n < MaxToolCalls
    /\ n = 0 \/ (t = "query_historical_weather" /\ a # "none")
    /\ Begin([tc EXCEPT !.tool = t, !.arg = a, !.ids = n, !.left = n, !.n = @ + 1])
    /\ UNCHANGED <<pvars, env, rt, fx>>

\* query_historical_weather goes on to its next station, or gives up after the last
NextStation(c) ==
    IF c.left > 1
      THEN Send([c EXCEPT !.left = @ - 1])
      ELSE ReturnError(c)

\* the provider answers the request the adapter waits on
ProviderResponds(o) ==
    /\ tc.phase = "waiting"
    /\ o \in OutcomesOf(tc.tool)
    /\ LET t == tc.tool
           c == Heard(o)
       IN  CASE t = "query_historical_weather" ->
                    IF o = "ok" THEN ReturnSuccess(c) ELSE NextStation(c)
             [] t # "query_historical_weather" /\ o \in Raising -> ReturnError(c)
             [] t \in GoogleAdapters /\ o \notin Raising ->
                    IF o = "ok" \/ (o = "empty" /\ t = "search_nearby_places")
                      THEN ReturnSuccess(c) ELSE ReturnError(c)
             [] t \in {"get_nws_forecast", "get_hourly_forecast"} /\ o \notin Raising ->
                    IF o = "wrong_shape" THEN ReturnError(c)
                    ELSE IF tc.reqs < RequestsOf(t) THEN Send(c)
                    ELSE ReturnSuccess(c)
             [] t \in {"get_nws_alerts", "get_current_conditions", "get_hurricane_track"}
                  /\ o \notin Raising ->
                    \* .get(..., default) throughout, or the body is not looked at
                    ReturnSuccess(c)
             [] t = "get_census_demographics" /\ o \notin Raising ->
                    IF o = "wrong_shape" THEN ReturnError(c) ELSE ReturnSuccess(c)
             [] t \in {"find_nearest_weather_station", "get_weather_statistics"}
                  /\ o \notin Raising ->
                    IF o = "ok" THEN ReturnSuccess(c) ELSE ReturnError(c)
    /\ UNCHANGED <<pvars, env, rt, fx>>

\* the request's timeout expires: requests raises inside the adapter's try block
Timeout ==
    /\ tc.phase = "waiting"
    /\ tc.deadline
    /\ ReturnError(Heard("timeout"))
    /\ UNCHANGED <<pvars, env, rt, fx>>

\* the calling stage takes what the call gave it
ToolReturn ==
    /\ tc.phase \in {"returned", "raised"}
    /\ tc' = [IdleCall EXCEPT !.n = tc.n]
    /\ UNCHANGED <<pvars, tstate, env, rt, fx>>

\* the stage makes the call it has just had the result of once more: the same
\* adapter, the same arguments
ToolRepeat ==
    /\ tc.phase = "returned"
    /\ ~tc.prev.made
    /\ tc.n < MaxToolCalls
    /\ Begin([IdleCall EXCEPT !.tool = tc.tool, !.arg = tc.arg, !.ids = tc.ids,
                              !.left = tc.ids, !.n = tc.n + 1,
                              !.prev = [made |-> TRUE, resp |-> tc.resp,
                                        state |-> tstate]])
    /\ UNCHANGED <<pvars, env, rt, fx>>

ToolInit ==
    /\ inv = [i \in Inv |-> Idle]
    /\ active = [i \in Inv |-> {}]
    /\ log = [i \in Inv |-> << >>]
    /\ completed = [i \in Inv |-> {}]
    /\ stage = [i \in Inv |-> NoCalls]
    /\ hist = [i \in Inv |-> NoHist]
    /\ store = [s \in Sessions |-> EmptyState]
    /\ tc = IdleCall
    /\ tstate = EmptyToolState
    /\ env \in [GOOGLE_MAPS_API_KEY : BOOLEAN]
    /\ rt = IdleRouter
    /\ fx = NoEval

ToolNext ==
    \/ \E t \in Adapters, a \in Args, n \in 0..MaxStations : ToolInvoke(t, a, n)
    \/ \E o \in Outcomes : ProviderResponds(o)
    \/ Timeout
    \/ ToolReturn

ToolSpec == ToolInit /\ [][ToolNext]_vars

\* an armed timeout does expire, and the caller does take the result; nothing
\* makes a provider answer
FairToolSpec == ToolSpec /\ WF_vars(Timeout) /\ WF_vars(ToolReturn)

\* a call and the same call made again
RepeatNext ==
    \/ \E t \in Adapters, a \in Args, n \in 0..MaxStations : ToolInvoke(t, a, n)
    \/ \E o \in Outcomes : ProviderResponds(o)
    \/ Timeout
    \/ ToolRepeat

RepeatSpec == ToolInit /\ [][RepeatNext]_vars

----------------------------------------------------------------------------
(* The chat orchestrator: an agent whose tools are the pipelines.  It reads *)
(* the request, calls the pipelines it picks, and answers.                  *)

\* pipelines the orchestrator calls for one request at most
MaxRouted == 2
\* routing categories one request matches at most
MaxIntents == 2

\* the topics of the orchestrator's ROUTING LOGIC
Intents == {"alerts", "forecast", "risk", "resources", "hurricane"}

\* tools=[AgentTool(...), ...]: the five registered pipelines
RouterTools ==
    {"alerts_snapshot_pipeline", "forecast_pipeline", "risk_analysis_pipeline",
     "emergency_resources_pipeline", "hurricane_simulation_pipeline"}

\* the pipeline the ROUTING LOGIC names for a topic
IntentTool(c) ==
    CASE c = "alerts" -> "alerts_snapshot_pipeline"
      [] c = "forecast" -> "forecast_pipeline"
      [] c = "risk" -> "risk_analysis_pipeline"
      [] c = "resources" -> "emergency_resources_pipeline"
      [] c = "hurricane" -> "hurricane_simulation_pipeline"

\* the requests: told apart by the set of topics their words match (none, for a
\* request the ROUTING LOGIC has no line for)
Requests == {cs \in SUBSET Intents : Cardinality(cs) <= MaxIntents}

\* the pipelines the instruction lets the orchestrator call for a request: the
\* ones its ROUTING LOGIC names for the topics matched; for a request that matches
\* no topic the instruction names none and rules none out
Routable(cs) == IF cs = {} THEN RouterTools ELSE {IntentTool(c) : c \in cs}

SeqRange(q) == {q[k] : k \in 1..Len(q)}

\* a request reaches the orchestrator
RouterReceive(cs) ==
    /\ rt.phase = "idle"
    /\ cs \in Requests
    /\ rt' = [phase |-> "routing", cats |-> cs, ran |-> << >>, reply |-> "none"]
    /\ UNCHANGED <<pvars, tvars, fx>>

\* the orchestrator calls the AgentTool of pipeline p, which runs the pipeline
\* and gives its result back to the orchestrator
RouterCallTool(p) ==
    /\ rt.phase = "routing"
    /\ Len(rt.ran) < MaxRouted
    /\ p \in Routable(rt.cats) \ SeqRange(rt.ran)
    /\ rt' = [rt EXCEPT !.ran = Append(@, p)]
    /\ UNCHANGED <<pvars, tvars, fx>>

\* the orchestrator answers: its text is stored under output_key final_response.
\* "Delegate immediately": a request that matches a topic is answered only after
\* a pipeline ran
RouterReply ==
    /\ rt.phase = "routing"
    /\ rt.cats # {} => rt.ran # << >>
    /\ rt' = [rt EXCEPT !.phase = "done", !.reply = "final_response"]
    /\ UNCHANGED <<pvars, tvars, fx>>

\* the answer is handed to the caller and the orchestrator is free again
RouterReturn ==
    /\ rt.phase = "done"
    /\ rt' = IdleRouter
    /\ UNCHANGED <<pvars, tvars, fx>>

RouterNext ==
    \/ \E cs \in Requests : RouterReceive(cs)
    \/ \E p \in RouterTools : RouterCallTool(p)
    \/ RouterReply
    \/ RouterReturn

RouterSpec == Init /\ [][RouterNext]_vars

----------------------------------------------------------------------------
(* The adapters' computations, one function call at a time: the arguments  *)
(* are drawn from small sets and fx holds the call and what it returned.   *)

\* Python values that may be None
None == [some |-> FALSE, v |-> 0]

Some(n) == [some |-> TRUE, v |-> n]

\* Python truth of a number or None: None and 0 are false
Truthy(x) == x.some /\ x.v # 0

\* dict.get(k, d) of a marker dict
Get(m, k, d) == IF k \in DOMAIN m THEN Some(m[k]) ELSE d

\* markers in the short lists drawn
MaxMarkers == 3
\* the longest marker list drawn
MaxLongList == 10
\* zoom - 1..20 per the docstring of generate_map
MinZoom == 1
MaxZoom == 20

\* the marker lists drawn: short lists of marker dicts (two ordinary ones, one
\* without 'lat', one on the equator), and long lists of ordinary markers at
\* different places
MarkerLists ==
    LET MarkerPool ==
            {[k \in {"lat", "lng"} |-> 1], [k \in {"lat", "lng"} |-> 2],
             [k \in {"lng"} |-> 3],
             [k \in {"lat", "lng"} |-> IF k = "lat" THEN 0 ELSE 4]}
        LongList(n) == [k \in 1..n |-> [c \in {"lat", "lng"} |-> 10 + k]]
    IN  UNION {[1..n -> MarkerPool] : n \in 0..MaxMarkers}
        \cup {LongList(n) : n \in (MaxMarkers + 1)..MaxLongList}

\* the "lat,lng" strings of the markers whose lat and lng are both true
LatLngParams(ms) ==
    LET ok == SelectSeq(ms, LAMBDA m : Truthy(Get(m, "lat", None))
                                        /\ Truthy(Get(m, "lng", None)))
    IN  [k \in 1..Len(ok) |-> <<ok[k]["lat"], ok[k]["lng"]>>]

\* the map_url generate_map builds, as the form of the URL, the places it shows
\* (destination or query first, then the waypoints) and its zoom parameter if it
\* has one; variant "tools" is src/tools/tools.py, "weather_tools" is
\* src/weather_insights_agent/weather_tools/tools.py
MapUrl(variant, center_lat, center_lng, zoom, markers) ==
    LET SearchUrl(lat, lng, z) ==
            [form |-> "search", points |-> << <<lat, lng>> >>, zoom |-> Some(z)]
        DirUrl(dest, waypoints) ==
            [form |-> "dir", points |-> <<dest>> \o waypoints, zoom |-> None]
        \* markers[1:9]
        Slice1to9(ms) == SubSeq(ms, 2, IF Len(ms) < 9 THEN Len(ms) ELSE 9)
    IN
    IF Len(markers) = 0
      THEN SearchUrl(center_lat, center_lng, zoom)
      ELSE LET dest_lat == Get(markers[1], "lat", Some(center_lat)).v
               dest_lng == Get(markers[1], "lng", Some(center_lng)).v
           IN  IF variant = "tools"
                 THEN LET marker_params == LatLngParams(markers)
                      IN  IF Len(marker_params) > 1
                            THEN DirUrl(marker_params[1], Tail(marker_params))
                            ELSE SearchUrl(dest_lat, dest_lng, zoom)
                 ELSE DirUrl(<<dest_lat, dest_lng>>, LatLngParams(Slice1to9(markers)))

\* what generate_map returns and the map_data it stores
generate_map(variant, center_lat, center_lng, zoom, markers) ==
    LET map_url == MapUrl(variant, center_lat, center_lng, zoom, markers)
    IN  [status |-> "success", map_url |-> map_url, zoom |-> zoom,
         center |-> <<center_lat, center_lng>>,
         map_data |-> [center |-> <<center_lat, center_lng>>, zoom |-> zoom,
                       markers |-> markers, map_url |-> map_url]]

\* the caller takes what the function returned
TakeResult ==
    /\ fx # NoEval
    /\ fx' = NoEval
    /\ UNCHANGED <<pvars, tvars, rt>>

\* a stage calls generate_map
GenerateMap(variant, zoom, markers) ==
    /\ fx = NoEval
    /\ fx' = [fn |-> "generate_map", variant |-> variant, zoom |-> zoom,
              markers |-> markers, out |-> generate_map(variant, 9, 9, zoom, markers)]
    /\ UNCHANGED <<pvars, tvars, rt>>

MapNext ==
    \/ \E variant \in {"tools", "weather_tools"},
          zoom \in {MinZoom - 1, MinZoom, 12, MaxZoom, MaxZoom + 1},
          markers \in MarkerLists :
          GenerateMap(variant, zoom, markers)
    \/ TakeResult

MapSpec == Init /\ [][MapNext]_vars

-----------------------------------------------------------------------------
(* get_nws_alerts of weather_tools/tools.py as a function of its arguments  *)
(* and of the features the provider sends                                   *)

AlertLimit == 20
TopCount == 15
MaxFeed == 22
MaxPattern == 2

Severities == {"Extreme", "Severe", "Moderate", "Minor", "Unknown"}

severity_priority(s) ==
    CASE s = "Extreme" -> 0
      [] s = "Severe" -> 1
      [] s = "Moderate" -> 2
      [] s = "Minor" -> 3
      [] OTHER -> 4

\* the feature lists drawn: n features whose severity property repeats a pattern;
\* "absent" is a feature without the property
Feeds ==
    LET FeedSeverities == Severities \cup {"absent"}
        Feed(base, n) ==
            [k \in 1..n |-> [id |-> k, severity |-> base[((k - 1) % Len(base)) + 1]]]
    IN  {Feed(base, n) : base \in UNION {[1..m -> FeedSeverities] : m \in 1..MaxPattern},
                         n \in {0, 1, TopCount, AlertLimit, AlertLimit + 1, MaxFeed}}

Extracted(features, severity) ==
    LET Passes(feature) == severity = "none" \/ feature.severity = severity
        AlertOf(feature) ==
            [id |-> feature.id,
             severity |-> IF feature.severity = "absent" THEN "Unknown"
                          ELSE feature.severity]
        kept == SelectSeq(features, Passes)
    IN  [k \in 1..Len(kept) |-> AlertOf(kept[k])]

severity_counts(alerts) ==
    [s \in Severities |-> Len(SelectSeq(alerts, LAMBDA a : a.severity = s))]

\* the alerts as received, not sorted
AsReceived(alerts) == alerts

\* list.sort is stable: ascending priority, arrival order within one priority
SortBySeverity(alerts) ==
    LET WithPriority(p) ==
            SelectSeq(alerts, LAMBDA a : severity_priority(a.severity) = p)
    IN  WithPriority(0) \o WithPriority(1) \o WithPriority(2)
            \o WithPriority(3) \o WithPriority(4)

Limit(alerts) ==
    IF Len(alerts) > AlertLimit
    THEN SubSeq(SortBySeverity(alerts), 1, TopCount)
    ELSE alerts

LimitedFrom(total_count) == total_count >= AlertLimit

Limited(total_count) == total_count > AlertLimit

AlertsQuery(state, latitude, longitude) ==
    IF Truthy(latitude) /\ Truthy(longitude) THEN "point"
    ELSE IF state # "none" THEN "area"
    ELSE "national"

get_nws_alerts(state, latitude, longitude, severity, features) ==
    LET all == Extracted(features, severity)
        total_count == Len(all)
        counts == severity_counts(all)
        alerts == Limit(all)
    IN  [status |-> "success",
         query |-> AlertsQuery(state, latitude, longitude),
         alerts |-> alerts,
         total_count |-> total_count,
         returned_count |-> Len(alerts),
         severity_breakdown |-> counts,
         limited |-> Limited(total_count),
         stored |-> [alerts |-> alerts, count |-> total_count,
                     severity_breakdown |-> counts, limited |-> Limited(total_count)]]

GetAlerts(state, latitude, longitude, severity, features) ==
    /\ fx = NoEval
    /\ fx' = [fn |-> "get_nws_alerts", state |-> state, latitude |-> latitude,
              longitude |-> longitude, severity |-> severity, features |-> features,
              out |-> get_nws_alerts(state, latitude, longitude, severity, features)]
    /\ UNCHANGED <<pvars, tvars, rt>>

AlertsNext ==
    \/ \E state \in {"none", "FL"}, latitude \in {None, Some(0), Some(1)},
          longitude \in {None, Some(2)}, severity \in {"none", "Severe", "Minor"},
          features \in Feeds :
          GetAlerts(state, latitude, longitude, severity, features)
    \/ TakeResult

AlertsSpec == Init /\ [][AlertsNext]_vars

-----------------------------------------------------------------------------
(* query_historical_weather as a function of what each station's query gives *)

MaxStationList == 4

\* for each station of the list, what its query gives: rows, no rows, or an
\* exception
StationLists ==
    UNION {[1..n -> {"records", "empty", "raises"}] : n \in 0..MaxStationList}

\* a query that did not raise counts as data
Answered(answer) == answer # "raises"

\* if records:
HasRecords(answer) == answer = "records"

RECURSIVE TryStations(_, _, _)
TryStations(answers, idx, queried) ==
    IF idx > Len(answers)
      THEN [status |-> "error", usaf_id |-> 0, station_tried |-> 0,
            total_stations |-> Len(answers), queried |-> queried, stored |-> None]
      ELSE IF HasRecords(answers[idx])
             THEN [status |-> "success", usaf_id |-> idx, station_tried |-> idx,
                   total_stations |-> Len(answers), queried |-> Append(queried, idx),
                   stored |-> Some(idx)]
             ELSE TryStations(answers, idx + 1, Append(queried, idx))

query_historical_weather(answers) == TryStations(answers, 1, << >>)

QueryHistorical(answers) ==
    /\ fx = NoEval
    /\ fx' = [fn |-> "query_historical_weather", answers |-> answers,
              out |-> query_historical_weather(answers)]
    /\ UNCHANGED <<pvars, tvars, rt>>

HistoricalNext ==
    \/ \E answers \in StationLists : QueryHistorical(answers)
    \/ TakeResult

HistoricalSpec == Init /\ [][HistoricalNext]_vars

-----------------------------------------------------------------------------
(* get_census_demographics as a function of its arguments and of the rows   *)
(* the provider sends                                                       *)

MaxTracts == 2

state_fips ==
    <<<<"AL", "01">>, <<"AK", "02">>, <<"AZ", "04">>, <<"AR", "05">>, <<"CA", "06">>, <<"CO", "08">>,
       <<"CT", "09">>, <<"DE", "10">>, <<"DC", "11">>, <<"FL", "12">>, <<"GA", "13">>, <<"HI", "15">>,
       <<"ID", "16">>, <<"IL", "17">>, <<"IN", "18">>, <<"IA", "19">>, <<"KS", "20">>, <<"KY", "21">>,
       <<"LA", "22">>, <<"ME", "23">>, <<"MD", "24">>, <<"MA", "25">>, <<"MI", "26">>, <<"MN", "27">>,
       <<"MS", "28">>, <<"MO", "29">>, <<"MT", "30">>, <<"NE", "31">>, <<"NV", "32">>, <<"NH", "33">>,
       <<"NJ", "34">>, <<"NM", "35">>, <<"NY", "36">>, <<"NC", "37">>, <<"ND", "38">>, <<"OH", "39">>,
       <<"OK", "40">>, <<"OR", "41">>, <<"PA", "42">>, <<"RI", "44">>, <<"SC", "45">>, <<"SD", "46">>,
       <<"TN", "47">>, <<"TX", "48">>, <<"UT", "49">>, <<"VT", "50">>, <<"VA", "51">>, <<"WA", "53">>,
       <<"WV", "54">>, <<"WI", "55">>, <<"WY", "56">> >>

\* state_fips.get(state.upper()): the code, or "none"
FipsOf(state) ==
    LET abbr == CASE state = "ca" -> "CA"
                  [] state = "tx" -> "TX"
                  [] OTHER -> state
    IN  IF \E k \in 1..Len(state_fips) : state_fips[k][1] = abbr
          THEN (CHOOSE pair \in {state_fips[k] : k \in 1..Len(state_fips)} :
                    pair[1] = abbr)[2]
          ELSE "none"

\* what bq_client.query(...).result() gives: rows of census tracts, or an exception
QueryResults ==
    LET Tract(id, pop, hh, age, income) ==
            [geo_id |-> id, total_pop |-> pop, households |-> hh, median_age |-> age,
             median_income |-> income]
        TractPool ==
            {Tract("06001", Some(4000), Some(1500), Some(35), Some(90000)),
             Tract("06013", Some(2501), Some(900), Some(42), Some(60001)),
             Tract("06075", None, None, None, None)}
    IN  {[raises |-> FALSE, rows |-> rows] :
            rows \in UNION {[1..n -> TractPool] : n \in 0..MaxTracts}}
        \cup {[raises |-> TRUE, rows |-> << >>]}

\* the sum of `x or 0` over the rows
RECURSIVE SumOver(_, _)
SumOver(rows, field) ==
    IF rows = << >> THEN 0
    ELSE (IF Truthy(rows[1][field]) THEN rows[1][field].v ELSE 0)
            + SumOver(Tail(rows), field)

\* round(total / n, digits), as an integer count of 10^-digits units (ties to even)
RoundedAvg(total, n, scale) ==
    LET q == (scale * total) \div n
        r == (scale * total) % n
    IN  IF 2 * r > n \/ (2 * r = n /\ q % 2 = 1) THEN q + 1 ELSE q

\* the tracts of one city only
RowsOfCity(city, rows) ==
    SelectSeq(rows, LAMBDA r : (city = "San Ramon" /\ r.geo_id = "06013")
                               \/ (city = "Dublin" /\ r.geo_id = "06001"))

\* the query names the state code only: the rows are those the provider has for it
RowsQueried(city, rows) == rows

Summary(city, state, demographics) ==
    IF demographics # << >>
      THEN [city |-> city, state |-> state,
            total_population |-> Some(SumOver(demographics, "total_pop")),
            total_households |-> Some(SumOver(demographics, "households")),
            avg_median_age |->
                Some(RoundedAvg(SumOver(demographics, "median_age"), Len(demographics), 10)),
            avg_median_income |->
                Some(RoundedAvg(SumOver(demographics, "median_income"), Len(demographics), 100)),
            census_tracts |-> Some(Len(demographics)),
            tracts |-> demographics,
            message |-> << >>]
      ELSE [city |-> city, state |-> state,
            total_population |-> None, total_households |-> None,
            avg_median_age |-> None, avg_median_income |-> None,
            census_tracts |-> None, tracts |-> << >>,
            message |-> <<"No census data found for", city, state>>]

get_census_demographics(city, state, result) ==
    IF state = "none"
      THEN [status |-> "error", message |-> "Failed to query census data", stored |-> [written |-> FALSE]]
    ELSE IF FipsOf(state) = "none"
      THEN [status |-> "error", message |-> "Invalid state abbreviation", stored |-> [written |-> FALSE]]
    ELSE IF result.raises
      THEN [status |-> "error", message |-> "Failed to query census data", stored |-> [written |-> FALSE]]
    ELSE LET summary == Summary(city, state, RowsQueried(city, result.rows))
         IN  [status |-> "success", data |-> summary,
              stored |-> [written |-> TRUE, summary |-> summary]]

GetCensus(city, state, result) ==
    /\ fx = NoEval
    /\ fx' = [fn |-> "get_census_demographics", city |-> city, state |-> state,
              result |-> result, out |-> get_census_demographics(city, state, result),
              earlier |-> [made |-> FALSE]]
    /\ UNCHANGED <<pvars, tvars, rt>>

\* the same call with the same provider data, for another city
GetCensusForCity(city) ==
    /\ fx.fn = "get_census_demographics"
    /\ ~fx.earlier.made
    /\ city # fx.city
    /\ fx' = [fx EXCEPT !.city = city,
                        !.out = get_census_demographics(city, fx.state, fx.result),
                        !.earlier = [made |-> TRUE, city |-> fx.city, out |-> fx.out]]
    /\ UNCHANGED <<pvars, tvars, rt>>

CensusNext ==
    \/ \E city \in {"San Ramon", "Dublin", "none"}, state \in {"CA", "ca", "ZZ", "none"},
          result \in QueryResults :
          GetCensus(city, state, result)
    \/ \E city \in {"San Ramon", "Dublin", "none"} : GetCensusForCity(city)
    \/ TakeResult

CensusSpec == Init /\ [][CensusNext]_vars

-----------------------------------------------------------------------------
(* the risk score of risk_calculator, step by step as its instruction lists  *)
(* them; scores are kept in tenths of a point                                *)

SeverityPoints == {25, 50, 75, 100}
PopulationPoints == {25, 50, 75, 100}
FloodPointsOffGrid == {27, 50, 100}
FloodPoints == {25, 50, 100}

SeverityWeight == 4
PopulationWeight == 3
FloodWeight == 3

\* 0.4 * severity + 0.3 * population + 0.3 * flood, in tenths
RiskScore(severity, population, flood) ==
    SeverityWeight * severity + PopulationWeight * population + FloodWeight * flood

\* the declared levels whose band holds the score
RiskLevels(score) ==
    LET RiskBands ==
            {[level |-> "Low", lo |-> 0, hi |-> 25],
             [level |-> "Medium", lo |-> 26, hi |-> 50],
             [level |-> "High", lo |-> 51, hi |-> 75],
             [level |-> "Severe", lo |-> 76, hi |-> 100]}
    IN  {b.level : b \in {r \in RiskBands : 10 * r.lo <= score /\ score <= 10 * r.hi}}

TakeSeverity(points) ==
    /\ fx = NoEval
    /\ fx' = [fn |-> "risk_score", step |-> "severity", severity |-> points,
              population |-> 0, flood |-> 0, score |-> None, levels |-> {}]
    /\ UNCHANGED <<pvars, tvars, rt>>

TakePopulation(points) ==
    /\ fx.fn = "risk_score"
    /\ fx.step = "severity"
    /\ fx' = [fx EXCEPT !.step = "population", !.population = points]
    /\ UNCHANGED <<pvars, tvars, rt>>

TakeFlood(points) ==
    /\ fx.fn = "risk_score"
    /\ fx.step = "population"
    /\ fx' = [fx EXCEPT !.step = "flood", !.flood = points]
    /\ UNCHANGED <<pvars, tvars, rt>>

CalculateScore ==
    /\ fx.fn = "risk_score"
    /\ fx.step = "flood"
    /\ fx' = [fx EXCEPT !.step = "scored",
                        !.score = Some(RiskScore(fx.severity, fx.population, fx.flood))]
    /\ UNCHANGED <<pvars, tvars, rt>>

DetermineLevel ==
    /\ fx.fn = "risk_score"
    /\ fx.step = "scored"
    /\ fx' = [fx EXCEPT !.step = "levelled", !.levels = RiskLevels(fx.score.v)]
    /\ UNCHANGED <<pvars, tvars, rt>>

StoreRiskScores ==
    /\ fx.fn = "risk_score"
    /\ fx.step = "levelled"
    /\ fx' = NoEval
    /\ UNCHANGED <<pvars, tvars, rt>>

RiskNext ==
    \/ \E points \in SeverityPoints : TakeSeverity(points)
    \/ \E points \in PopulationPoints : TakePopulation(points)
    \/ \E points \in FloodPoints : TakeFlood(points)
    \/ CalculateScore
    \/ DetermineLevel
    \/ StoreRiskScores

RiskSpec == Init /\ [][RiskNext]_vars

----------------------------------------------------------------------------
(* Properties                                                              *)

\* the invocations that hold a run: started and not yet handed back
Live(i) == Running(i) \/ Terminated(i)

\* the last declared stage of invocation i's pipeline
FinalStage(i) == Stages(i)[Len(Stages(i))]

\* C1: in every run of every pipeline the stages start in the declared sub_agents
\* order: the k-th stage started is the k-th declared, stage N+1 starts only after
\* stage N has completed, at most one stage of a run is active, none starts twice.
StagesInDeclaredOrder ==
    \A i \in Inv :
        /\ Cardinality(active[i]) <= 1
        /\ \A k \in 1..Len(log[i]) :
              /\ log[i][k] = k
              /\ k <= Len(Stages(i))
              /\ k < Len(log[i]) => (k \in completed[i] /\ k \notin active[i])

\* C1 happens: a four-stage run went through all its stages and succeeded
FourStagesRanInOrder ==
    \E i \in Inv : inv[i].status = "success" /\ log[i] = <<1, 2, 3, 4>>

\* C2: when the output of a stage with an output_schema fails validation, the run
\* ends with status error and no stage declared after the failing one is started.
RejectedOutputEndsRun ==
    \A i \in Inv :
        \A k \in hist[i].badOut :
            /\ inv[i].status = "error"
            /\ Len(log[i]) = k

\* C2 happens: a stage that is not the last produced a non-conforming output
OutputRejectedMidRun ==
    \E i \in Inv :
        /\ hist[i].badOut # {}
        /\ inv[i].status = "error"
        /\ inv[i].kind = "SchemaViolationError"
        /\ Len(log[i]) < Len(Stages(i))

\* C3: when an adapter returned status error and no alternate tool of the stage
\* succeeded, the stage fails, no later stage is started and the run returns an
\* error result; a run with a failed stage is never reported as success.
ToolFailureEndsRun ==
    \A i \in Inv :
        \A k \in hist[i].toolFailed :
            /\ inv[i].status = "error"
            /\ inv[i].status # "success"
            /\ Len(log[i]) = k

\* C3 happens: an adapter error failed a stage that is not the last
ToolFailedMidRun ==
    \E i \in Inv :
        /\ hist[i].toolFailed # {}
        /\ inv[i].status = "error"
        /\ inv[i].kind = "ToolError"
        /\ Len(log[i]) < Len(Stages(i))

\* C4: a run in which every adapter call succeeds and every stage output conforms
\* to its schema eventually terminates, after the last declared stage, with status
\* success and data that satisfies the final stage's output_schema (a run ends in
\* error only where an adapter failed or an output was rejected).
CleanRunSucceeds ==
    \A i \in Inv :
        Running(i) ~>
            \/ /\ inv[i].status = "error"
               /\ hist[i].toolFailed \cup hist[i].badOut # {}
            \/ /\ inv[i].status = "success"
               /\ hist[i].toolFailed \cup hist[i].badOut = {}
               /\ completed[i] = 1..Len(Stages(i))
               /\ FinalStage(i).output_schema # NoSchema
                     => Conforms(inv[i].data, FinalStage(i).output_schema)

\* C4 happens: a run whose adapter calls all succeeded ended with status success
CleanRunEnded ==
    \E i \in Inv :
        /\ inv[i].status = "success"
        /\ hist[i] = NoHist
        /\ inv[i].pipeline \in Pipelines
        /\ store[inv[i].sess]["alerts"] = Val(i, "get_nws_alerts", "adapter", Payload("get_nws_alerts"))
        /\ FinalStage(i).output_schema # NoSchema
        /\ Conforms(inv[i].data, FinalStage(i).output_schema)

\* C5: in every state of a run, a value held under the output_key of a stage of the
\* run's pipeline that declares an output_schema conforms to that schema.
StoredOutputsConform ==
    \A i \in Inv :
        Live(i) =>
            \A k \in 1..Len(Stages(i)) :
                LET s == Stages(i)[k]
                    v == store[inv[i].sess][s.output_key]
                IN  (s.output_schema # NoSchema /\ s.output_key # NoKey /\ v # Null)
                        => Conforms(v.fields, s.output_schema)

\* C5 happens: a run holds the validated output of a stage that declares a schema,
\* here one with a whole number in a field declared float
SchemaOutputStored ==
    \E i \in Inv :
        /\ Running(i)
        /\ \E k \in 1..Len(Stages(i)) :
              LET s == Stages(i)[k]
              IN  /\ s.output_schema # NoSchema
                  /\ s.output_key # NoKey
                  /\ store[inv[i].sess][s.output_key].kind = "stage"
                  /\ store[inv[i].sess][s.output_key].inv = i
                  /\ \E f \in DOMAIN SchemaOf(s.output_schema) :
                        /\ SchemaOf(s.output_schema)[f] = "float"
                        /\ store[inv[i].sess][s.output_key].fields[f] = "int"

\* C6: an invocation's state holds only what that invocation put there: its own
\* input at the start, and keys written during the invocation afterwards.
InvocationsIsolated ==
    \A i \in Inv :
        Live(i) =>
            \A k \in Keys :
                store[inv[i].sess][k] # Null => store[inv[i].sess][k].inv = i

\* C7: whatever the arguments and whatever the provider does, an adapter call
\* returns a tagged result and no exception reaches the calling stage.
AdaptersNeverRaise == tc.phase # "raised"

\* C8: every value an adapter returns has status success or status error.
StatusIsSuccessOrError ==
    tc.phase = "returned" => tc.status \in {"success", "error"}

\* C9: an adapter call that waits on its provider eventually ends, even if the
\* provider never answers.
WaitingCallEnds == (tc.phase = "waiting") ~> (tc.phase \in {"returned", "raised"})

\* the stage of a run's pipeline that has the given name is the one running
InStageNamed(i, p, n) ==
    Running(i) /\ inv[i].pipeline = p /\ InStage(i) /\ CurStage(i).name = n

\* C10: writing a stage's output never replaces the payload an adapter of that
\* stage wrote: the adapter's key differs from the stage's output_key.
OutputKeepsAdapterPayload ==
    [][\A i \in Inv : \A k \in Keys :
          (/\ Running(i)
           /\ InStage(i)
           /\ store[inv[i].sess][k].kind = "adapter"
           /\ store[inv[i].sess][k].inv = i
           /\ store[inv[i].sess][k].by \in CurStage(i).tools)
          => store'[inv[i].sess][k].kind # "stage"]_vars

\* C11: in the forecast pipeline, when the geocode stage ends well after the geocode
\* adapter wrote geocode_result, the value forecast_retriever then finds under
\* geocode_result is the adapter's payload, and it holds the coordinate fields
\* forecast_retriever reads.
RetrieverReadsGeocodePayload ==
    [][\A i \in Inv :
          LET v == store[inv[i].sess]["geocode_result"]
              w == store'[inv[i].sess]["geocode_result"]
          IN  (/\ InStageNamed(i, "forecast", "geocoding_agent")
               /\ v = Val(i, "geocode_address", "adapter", Payload("geocode_address"))
               /\ Cur(i) \in completed'[i]
               /\ inv'[i].status = "running")
                  => /\ w = v
                     /\ ReadsFields("forecast", "forecast_retriever", "geocode_result")
                           \subseteq DOMAIN w.fields]_vars

\* the run of i has a value under key k that the run itself put there
WrittenInRun(i, k) ==
    /\ k \in Keys
    /\ store[inv[i].sess][k] # Null
    /\ store[inv[i].sess][k].inv = i

\* C12: at the moment a stage starts, every state key its instruction reads holds
\* a value written earlier in the same run (a stage's output, an adapter's payload
\* or the seeded input).
StagesReadWrittenKeys ==
    [][\A i \in Inv :
          (Running(i) /\ Len(log'[i]) = Len(log[i]) + 1)
              => \A k \in Reads(inv[i].pipeline, Stages(i)[NextStageIndex(i)].name) :
                    WrittenInRun(i, k)]_vars

\* C13: after a successful run of a pipeline, the state holds a value under the
\* final stage's output_key, and the run's result is exactly that value.
ResultIsFinalOutputKey ==
    \A i \in Inv :
        (inv[i].status = "success" /\ inv[i].pipeline \in Pipelines)
            => /\ FinalStage(i).output_key # NoKey
               /\ store[inv[i].sess][FinalStage(i).output_key]
                     = Val(i, FinalStage(i).name, "stage", inv[i].data)

\* C14: for every request the orchestrator handles, exactly one of the five
\* registered pipelines is executed: never two or more, and never none when the
\* request matches a category.
ExactlyOnePipelineRuns ==
    /\ Len(rt.ran) <= 1
    /\ (rt.phase = "done" /\ rt.cats # {}) => Len(rt.ran) = 1

\* C15: a request that matches none of the orchestrator's categories is answered
\* with a clarification request and no pipeline is run for it.
UnclassifiedRunsNoPipeline ==
    rt.cats = {} => /\ rt.ran = << >>
                    /\ rt.phase = "done" => rt.reply = "clarification"

\* C16: when a run ended in error (an adapter failed, an output was rejected), the
\* entry point hands its caller a result tagged error; the failure does not leave
\* the entry point as an exception.
FailureReachesCallerTagged ==
    [][\A i \in Inv :
          (inv[i].status = "error" /\ inv'[i].status = "returned")
              => /\ Delivered(inv[i].entry, inv[i].status) # "exception"
                 /\ Delivered(inv[i].entry, inv[i].status) = "error"]_vars

\* C17: a call of an adapter sends exactly one request to its provider, whatever
\* the adapter and its arguments: never a second one, and a call that returns its
\* data has sent one.
OneRequestPerCall ==
    /\ tc.reqs <= 1
    /\ (tc.phase = "returned" /\ tc.status # "error") => tc.reqs = 1

\* C18: an adapter called with a missing or ill-formed argument sends no request
\* to its provider, and what it returns is tagged error.
BadArgumentSendsNoRequest ==
    (tc.phase # "idle" /\ BadArgument(tc.tool, tc.arg))
        => /\ tc.reqs = 0
           /\ tc.phase = "returned" => tc.status = "error"

\* C19: when an adapter is called twice with the same arguments and the provider
\* answers the second call as it answered the first, the state after the second
\* call equals the state after the first: the adapter's key is overwritten, nothing
\* is appended, no other key changes.
RepeatedCallOverwrites ==
    (tc.phase = "returned" /\ tc.prev.made /\ tc.resp = tc.prev.resp)
        => tstate = tc.prev.state

\* C19 happens: the second of two identical calls wrote a payload that is not empty
SecondCallWrote ==
    /\ tc.phase = "returned"
    /\ tc.prev.made
    /\ tc.resp = tc.prev.resp
    /\ tc.status = "success"
    /\ AdapterKey(tc.tool) # NoKey
    /\ tstate[AdapterKey(tc.tool)].written
    /\ tstate[AdapterKey(tc.tool)].items # << >>

\* the provider failed (an error status, no connection, no JSON, no answer in
\* time) or answered with an empty result
FailedOrEmpty == {"empty", "http_error", "network", "not_json", "timeout"}

\* C20: when get_nws_alerts is called for a state code that does not exist and the
\* provider fails or returns an empty result, the adapter returns status error: an
\* empty alert list is not returned as a success.
UnknownStateAlertsFail ==
    (/\ tc.tool = "get_nws_alerts"
     /\ tc.arg = "invalid"
     /\ tc.phase = "returned"
     /\ tc.resp # << >>
     /\ tc.resp[Len(tc.resp)] \in FailedOrEmpty)
        => tc.status = "error"

\* C21: the zoom generate_map returns, and the zoom of the map_data it stores, is
\* within 1 to 20 whatever zoom argument the stage passes.
ZoomWithinRange ==
    fx.fn = "generate_map"
        => /\ fx.out.zoom \in MinZoom..MaxZoom
           /\ fx.out.map_data.zoom \in MinZoom..MaxZoom

\* C26: the map_url generate_map builds shows every marker that carries both a lat
\* and a lng, as its destination or query point or as a waypoint.
UrlShowsAllMarkers ==
    fx.fn = "generate_map"
        => \A k \in 1..Len(fx.markers) :
              LET m == fx.markers[k]
                  shown == fx.out.map_url.points
              IN  {"lat", "lng"} \subseteq DOMAIN m
                     => \E j \in 1..Len(shown) : shown[j] = <<m["lat"], m["lng"]>>

\* C23: an adapter call that returns status error leaves every state key as it was
\* before the call; a key is written only by the step that returns success.
ErrorLeavesStateUntouched ==
    [][/\ (tc' # tc /\ tc'.phase = "returned" /\ tc'.status = "error")
            => tstate' = tstate
       /\ tstate' # tstate
            => tc'.phase = "returned" /\ tc'.status = SuccessStatus(tc'.tool)]_vars

\* a call has returned error after an earlier call had written the same adapter's key
ErrorAfterEarlierWrite ==
    /\ tc.phase = "returned"
    /\ tc.status = "error"
    /\ tc.resp # << >>
    /\ AdapterKey(tc.tool) # NoKey
    /\ tstate[AdapterKey(tc.tool)].written

\* C28: when GOOGLE_MAPS_API_KEY is not configured, geocode_address, get_directions
\* and search_nearby_places return status error with the 'not configured' message
\* and send no request, whatever their arguments.
MissingKeyIsRefused ==
    (/\ tc.tool \in {"geocode_address", "get_directions", "search_nearby_places"}
     /\ ~env.GOOGLE_MAPS_API_KEY)
        => /\ tc.phase = "returned"
           /\ tc.status = "error"
           /\ tc.msg = "not configured"
           /\ tc.reqs = 0

\* geocode_address was called with a good address and no key configured
GeocodeCalledWithoutKey ==
    /\ tc.tool = "geocode_address"
    /\ tc.arg = "valid"
    /\ ~env.GOOGLE_MAPS_API_KEY
    /\ tc.phase = "returned"

Matching ==
    {k \in 1..Len(fx.features) :
        fx.severity = "none" \/ fx.features[k].severity = fx.severity}

\* C22: get_nws_alerts of weather_tools returns every matching alert when there are
\* at most 20; when there are more it returns exactly 15 of them, and no omitted
\* alert has a strictly higher severity priority than a returned one.
ReturnsMostCritical ==
    fx.fn = "get_nws_alerts"
        => LET out == fx.out.alerts
               ids == {out[k].id : k \in 1..Len(out)}
               sev(k) == severity_priority(fx.features[k].severity)
           IN  /\ ids \subseteq Matching
               /\ Cardinality(ids) = Len(out)
               /\ Cardinality(Matching) <= 20 => ids = Matching
               /\ Cardinality(Matching) > 20
                     => /\ Len(out) = 15
                        /\ \A o \in Matching \ ids, r \in ids : sev(o) >= sev(r)

\* more than 20 alerts of two severities matched and 15 came back
TruncatedMixedFeed ==
    /\ fx.fn = "get_nws_alerts"
    /\ Cardinality(Matching) > 20
    /\ Len(fx.out.alerts) = 15
    /\ \E j, k \in Matching : fx.features[j].severity = "Minor"
                              /\ fx.features[k].severity = "Extreme"

QueryByPrecedence ==
    fx.fn = "get_nws_alerts"
        => fx.out.query = IF fx.latitude.some /\ fx.longitude.some THEN "point"
                          ELSE IF fx.state # "none" THEN "area"
                          ELSE "national"

\* C27: after a successful get_nws_alerts of weather_tools the severity_breakdown
\* counters sum to the number of alerts that passed the filter, the stored count is
\* that number even when the stored list is truncated, and limited is true exactly
\* when the stored list is shorter than the count.
BreakdownAndCountAgree ==
    (fx.fn = "get_nws_alerts" /\ fx.out.status = "success")
        => LET s == fx.out.stored
               b == s.severity_breakdown
           IN  /\ b["Extreme"] + b["Severe"] + b["Moderate"] + b["Minor"] + b["Unknown"]
                     = Cardinality(Matching)
               /\ s.count = Cardinality(Matching)
               /\ s.limited <=> Len(s.alerts) < s.count

\* the stored list was truncated and the count kept the total
StoredListTruncated ==
    /\ fx.fn = "get_nws_alerts"
    /\ fx.out.status = "success"
    /\ fx.out.stored.limited
    /\ Len(fx.out.stored.alerts) < fx.out.stored.count
    /\ fx.out.stored.count = Cardinality(Matching)

\* C30: for every combination of the severity, population and flood-zone points the
\* risk score 0.4*severity + 0.3*population + 0.3*flood lies within 0 to 100 and
\* falls into exactly one of the bands 0-25 Low, 26-50 Medium, 51-75 High, 76-100
\* Severe: no score lands between two bands.
ScoreInExactlyOneBand ==
    (fx.fn = "risk_score" /\ fx.step = "levelled")
        => /\ fx.score.some
           /\ fx.score.v >= 0
           /\ fx.score.v <= 1000
           /\ Cardinality(fx.levels) = 1
           /\ fx.levels \subseteq {"Low", "Medium", "High", "Severe"}

\* a score of 52.5, the first above the Medium band, was placed in High
ScoreJustAboveMedium ==
    /\ fx.fn = "risk_score"
    /\ fx.step = "levelled"
    /\ fx.score = Some(525)
    /\ fx.levels = {"High"}

====
